---- MODULE Spec2Model ----
(***************************************************************************)
(* One chat turn handled by POST in src/route.ts: persona prompt,          *)
(* classification, rule fetch, inbound persistence, rule evaluation,       *)
(* history rewrite, completion call, outbound persistence, response.       *)
(*                                                                         *)
(* Text is a sequence of one-character strings over Alphabet.  A request   *)
(* is a non-empty sequence of messages; the block_rule table holds rows of *)
(* several companies.  Every awaited external call is one action whose     *)
(* outcome (result or failure) is chosen nondeterministically.             *)
(***************************************************************************)
EXTENDS Integers, Sequences, FiniteSets, TLC

VARIABLES
    pc,                         \* position of POST
    rawMessages,                \* incomingData.messages
    messages,                   \* the {role, content} copy, line 28
    company_id,                 \* incomingData.company_id
    block_rule,                 \* table block_rule
    writer,                     \* the process that edits block_rule meanwhile
    chat_message,               \* table chat_message
    events,                     \* events the audit sink accepted
    personaData,
    formattedPreviousMessages,
    currentMessageContent,
    categorization,
    rulesData,
    messageInsert,
    parsedRules,
    triggeredRules,
    newMessages,
    chainCall,                  \* the arguments chainB.call received, one per call
    resB,
    response,                   \* what POST returned to the caller
    failure,                    \* the call whose error or exception ended the turn
    stage                       \* the pipeline states the turn has passed through

vars == <<pc, rawMessages, messages, company_id, block_rule, writer, chat_message,
          events, personaData, formattedPreviousMessages,
          currentMessageContent, categorization, rulesData, messageInsert,
          parsedRules, triggeredRules, newMessages, chainCall, resB, response,
          failure, stage>>

----------------------------------------------------------------------------
(* Bounds of the model.                                                    *)

\* Longest message content.
MaxLen == 2

\* A request holds one or two messages; a table holds up to two rules.
MessageCounts == 1..2

RuleCounts == 0..2

Alphabet == {"a", "b"}

Roles == {"user", "assistant"}

Companies == {"c1", "c2"}

Categories == {"billing", "smalltalk"}

Replies == {<<"o", "k">>}

\* All texts over Alphabet of length lo..hi.
Texts(lo, hi) == UNION {[1..n -> Alphabet] : n \in lo..hi}

Contents == Texts(0, MaxLen)

\* Rows of block_rule: a matcher (original), its substitution and the
\* company scope.  The id is the row's position in the table.
RuleRows == [company_id : Companies,
             original : Texts(1, 1),
             substitution : Texts(0, 1)]

\* A conversation alternates between the user and the assistant and ends
\* with the user's message.
RoleAt(i, n) == IF (n - i) % 2 = 0 THEN "user" ELSE "assistant"

Requests ==
    UNION {{[i \in 1..n |-> [role |-> RoleAt(i, n), content |-> cs[i]]] :
                cs \in [1..n -> Contents]} : n \in MessageCounts}

SeqsOf(S, counts) == UNION {[1..n -> S] : n \in counts}

----------------------------------------------------------------------------
(* Text helpers.                                                           *)

\* formatMessage: the role, ": " and the content.
formatMessage(message) == <<message.role, ":", " ">> \o message.content

\* Array.prototype.join
RECURSIVE join(_, _)
join(strs, sep) ==
    IF Len(strs) = 0 THEN <<>>
    ELSE IF Len(strs) = 1 THEN strs[1]
    ELSE strs[1] \o sep \o join(Tail(strs), sep)

\* String.prototype.indexOf, 1-based; 0 when pattern does not occur.
IndexOf(str, pattern) ==
    LET hits == {i \in 1..(Len(str) - Len(pattern) + 1) :
                    SubSeq(str, i, i + Len(pattern) - 1) = pattern}
    IN IF hits = {} THEN 0
       ELSE CHOOSE i \in hits : \A j \in hits : i <= j

\* String.prototype.includes
Includes(str, pattern) == IndexOf(str, pattern) # 0

\* The characters U+0060 and U+0027 as elements of a text.
Backquote == "backquote"

Apostrophe == "apostrophe"

\* GetSubstitution of String.prototype.replace for a string pattern (no
\* captures): "$$" yields "$", "$&" the matched text, "$" with a backquote
\* the text before the match, "$" with an apostrophe the text after it;
\* every other character is literal.
RECURSIVE GetSubstitution(_, _, _, _)
GetSubstitution(matched, str, position, replacement) ==
    LET rest == SubSeq(replacement, 3, Len(replacement))
        special == Len(replacement) >= 2 /\ replacement[1] = "$"
    IN IF Len(replacement) = 0 THEN <<>>
       ELSE IF special /\ replacement[2] = "$"
            THEN <<"$">> \o GetSubstitution(matched, str, position, rest)
       ELSE IF special /\ replacement[2] = "&"
            THEN matched \o GetSubstitution(matched, str, position, rest)
       ELSE IF special /\ replacement[2] = Backquote
            THEN SubSeq(str, 1, position - 1)
                 \o GetSubstitution(matched, str, position, rest)
       ELSE IF special /\ replacement[2] = Apostrophe
            THEN SubSeq(str, position + Len(matched), Len(str))
                 \o GetSubstitution(matched, str, position, rest)
       ELSE <<replacement[1]>>
            \o GetSubstitution(matched, str, position, Tail(replacement))

\* Variant of Replace that splices at the index found without testing that
\* the pattern occurs at all.
ReplaceUnguarded(str, pattern, replacement) ==
    LET i == IndexOf(str, pattern)
    IN SubSeq(str, 1, i - 1)
       \o GetSubstitution(pattern, str, i, replacement)
       \o SubSeq(str, i + Len(pattern), Len(str))

\* String.prototype.replace with a string pattern: only the first
\* occurrence of the pattern is replaced.
Replace(str, pattern, replacement) ==
    LET i == IndexOf(str, pattern)
    IN IF i = 0 THEN str
       ELSE SubSeq(str, 1, i - 1)
            \o GetSubstitution(pattern, str, i, replacement)
            \o SubSeq(str, i + Len(pattern), Len(str))

----------------------------------------------------------------------------
(* Rule evaluation and the rewrite.                                        *)

\* evaluateMessageAgainstRules (utils/ruleHelpers): rules in input order, one
\* TriggeredRule for each rule whose matcher occurs in the message content,
\* carrying the rule's original/substitution pair and the message id.
RECURSIVE evaluateMessageAgainstRules(_, _)
evaluateMessageAgainstRules(ctx, rules) ==
    IF Len(rules) = 0 THEN <<>>
    ELSE LET rule == Head(rules)
             rest == evaluateMessageAgainstRules(ctx, Tail(rules))
         IN IF Includes(ctx.message.content, rule.original)
            THEN <<[original |-> rule.original,
                    substitution |-> rule.substitution,
                    rule_id |-> rule.id,
                    message_id |-> ctx.message_id]>> \o rest
            ELSE rest

\* Variant of ApplyTriggered that applies the rules from the last to the
\* first.
RECURSIVE ApplyTriggeredReversed(_, _)
ApplyTriggeredReversed(content, rules) ==
    IF Len(rules) = 0 THEN content
    ELSE Replace(ApplyTriggeredReversed(content, Tail(rules)),
                 Head(rules).original, Head(rules).substitution)

\* triggeredRules.forEach(rule => newMessage.content =
\*     newMessage.content.replace(rule.original, rule.substitution))
RECURSIVE ApplyTriggered(_, _)
ApplyTriggered(content, rules) ==
    IF Len(rules) = 0 THEN content
    ELSE ApplyTriggered(Replace(content, Head(rules).original,
                                Head(rules).substitution),
                        Tail(rules))

\* Variant of RewriteMessages that keeps the last message only.
RewriteMessagesLastOnly(msgs, rules) ==
    <<[role |-> msgs[Len(msgs)].role,
       content |-> ApplyTriggered(msgs[Len(msgs)].content, rules)]>>

\* messages.map(message => ...) of lines 153-164
RewriteMessages(msgs, rules) ==
    [i \in 1..Len(msgs) |->
        [role |-> msgs[i].role,
         content |-> ApplyTriggered(msgs[i].content, rules)]]

\* rawMessages.slice(0, -1).map(formatMessage)
FormattedPrevious(msgs) ==
    [i \in 1..(Len(msgs) - 1) |-> formatMessage(msgs[i])]

\* .from('block_rule').select('*').eq('company_id', company_id)
RECURSIVE SelectRules(_, _)
SelectRules(table, company) ==
    IF Len(table) = 0 THEN <<>>
    ELSE IF Head(table).company_id = company
         THEN <<Head(table)>> \o SelectRules(Tail(table), company)
         ELSE SelectRules(Tail(table), company)

\* The table rows with their ids (the position in the table).
WithIds(rows) ==
    [i \in 1..Len(rows) |->
        [id |-> i,
         company_id |-> rows[i].company_id,
         original |-> rows[i].original,
         substitution |-> rows[i].substitution]]

Last(s) == s[Len(s)]

----------------------------------------------------------------------------
(* The state after the request body is read (lines 25-33).                 *)

Init ==
    /\ pc = "persona"
    /\ rawMessages \in Requests
    /\ messages = [i \in 1..Len(rawMessages) |->
                      [role |-> rawMessages[i].role,
                       content |-> rawMessages[i].content]]
    /\ company_id = "c1"
    /\ \E rows \in SeqsOf(RuleRows, RuleCounts) : block_rule = WithIds(rows)
    /\ writer = "idle"
    /\ chat_message = <<>>
    /\ events = <<>>
    /\ personaData = <<>>
    /\ formattedPreviousMessages = <<>>
    /\ currentMessageContent = <<>>
    /\ categorization = <<>>
    /\ rulesData = <<>>
    /\ messageInsert = <<>>
    /\ parsedRules = <<>>
    /\ triggeredRules = <<>>
    /\ newMessages = <<>>
    /\ chainCall = <<>>
    /\ resB = <<>>
    /\ response = [kind |-> "pending", body |-> <<>>]
    /\ failure = "none"
    /\ stage = <<"Received">>

\* An exception leaves POST: the caller gets the framework's error response.
Throw(site) ==
    /\ pc' = "done"
    /\ response' = [kind |-> "threw", body |-> <<>>]
    /\ failure' = site
    /\ UNCHANGED stage

\* return null (lines 101, 122) and return (line 196): no NextResponse.
ReturnNoBody(kind, site) ==
    /\ pc' = "done"
    /\ response' = [kind |-> kind, body |-> <<>>]
    /\ failure' = site
    /\ UNCHANGED stage

\* Variant of StepOrder with the inbound insert ahead of the rule fetch.
StepOrderInsertFirst ==
    <<"persona", "prompt", "categorize", "logCreated", "insertInbound",
      "fetchRules", "parseRules", "evaluate", "logTriggered", "rewrite",
      "complete", "insertOutbound", "respond", "done">>

\* The statements of POST in the order of the source (lines 36-200).
StepOrder ==
    <<"persona", "prompt", "categorize", "logCreated", "fetchRules",
      "insertInbound", "parseRules", "evaluate", "logTriggered", "rewrite",
      "complete", "insertOutbound", "respond", "done">>

\* The statement that follows statement p.
After(p) ==
    StepOrder[1 + CHOOSE i \in 1..(Len(StepOrder) - 1) : StepOrder[i] = p]

\* The step succeeded: POST goes on with the next statement.
Goto ==
    /\ pc' = After(pc)
    /\ UNCHANGED <<response, failure, stage>>

\* The step succeeded and the turn enters the pipeline state reached.
Reach(reached) ==
    /\ pc' = After(pc)
    /\ stage' = Append(stage, reached)
    /\ UNCHANGED <<response, failure>>

----------------------------------------------------------------------------
(* The steps of POST.                                                      *)

\* Variant of FetchPersona that guards the missing persona: the error is
\* logged and the turn goes on with default attributes.
FetchPersonaDefault ==
    /\ pc = "persona"
    /\ \/ /\ \E valid \in BOOLEAN : personaData' = <<[valid |-> valid]>>
          /\ Goto
       \/ /\ personaData' = <<[valid |-> TRUE]>>
          /\ pc' = After(pc)
          /\ failure' = "persona"
          /\ UNCHANGED <<response, stage>>
    /\ UNCHANGED <<rawMessages, messages, company_id, block_rule, writer, chat_message,
                   events, formattedPreviousMessages, currentMessageContent,
                   categorization, rulesData, messageInsert, parsedRules,
                   triggeredRules, newMessages, chainCall, resB>>

\* Lines 36-55: the persona of the chat block.  With no persona row
\* personaData is null and Object.entries(undefined) throws.
FetchPersona ==
    /\ pc = "persona"
    /\ \/ /\ \E valid \in BOOLEAN : personaData' = <<[valid |-> valid]>>
          /\ Goto
       \/ /\ Throw("persona")
          /\ UNCHANGED personaData
    /\ UNCHANGED <<rawMessages, messages, company_id, block_rule, writer, chat_message,
                   events, formattedPreviousMessages, currentMessageContent,
                   categorization, rulesData, messageInsert, parsedRules,
                   triggeredRules, newMessages, chainCall, resB>>

\* Lines 58-77: createPersonaPrompt (a ConfigurationError for attributes it
\* does not accept), the template, and the model-facing history and input.
BuildPrompt ==
    /\ pc = "prompt"
    /\ \/ /\ personaData[1].valid
          /\ formattedPreviousMessages' = FormattedPrevious(rawMessages)
          /\ currentMessageContent' = Last(rawMessages).content
          /\ Goto
       \/ /\ ~personaData[1].valid
          /\ Throw("prompt")
          /\ UNCHANGED <<formattedPreviousMessages, currentMessageContent>>
    /\ UNCHANGED <<rawMessages, messages, company_id, block_rule, writer, chat_message,
                   events, personaData, categorization, rulesData,
                   messageInsert, parsedRules, triggeredRules, newMessages,
                   chainCall, resB>>

\* Variant of Categorize that swallows the classifier's failure and goes on
\* with a default category.
CategorizeSwallowed ==
    /\ pc = "categorize"
    /\ \/ /\ \E c \in Categories : categorization' =
                <<[category |-> c, message |-> Last(messages).content]>>
          /\ Reach("Classified")
       \/ /\ categorization' =
                <<[category |-> "unknown", message |-> Last(messages).content]>>
          /\ pc' = After(pc)
          /\ failure' = "classifier"
          /\ UNCHANGED <<response, stage>>
    /\ UNCHANGED <<rawMessages, messages, company_id, block_rule, writer, chat_message,
                   events, personaData, formattedPreviousMessages,
                   currentMessageContent, rulesData, messageInsert,
                   parsedRules, triggeredRules, newMessages, chainCall, resB>>

\* Line 79: await categorizePrompt(last message content).
Categorize ==
    /\ pc = "categorize"
    /\ \/ /\ \E c \in Categories : categorization' =
                <<[category |-> c, message |-> Last(messages).content]>>
          /\ Reach("Classified")
       \/ /\ Throw("classifier")
          /\ UNCHANGED categorization
    /\ UNCHANGED <<rawMessages, messages, company_id, block_rule, writer, chat_message,
                   events, personaData, formattedPreviousMessages,
                   currentMessageContent, rulesData, messageInsert,
                   parsedRules, triggeredRules, newMessages, chainCall, resB>>

\* apiLogger({...}): not awaited; the sink takes the event or loses it.
apiLogger(event) ==
    \E delivered \in BOOLEAN :
        events' = IF delivered THEN Append(events, event) ELSE events

\* Variant of LogCreated that awaits the sink and lets its failure leave
\* POST as an exception.
LogCreatedAwaited ==
    /\ pc = "logCreated"
    /\ \/ /\ events' = Append(events,
                          [type |-> "CHAT_MESSAGE_CREATED",
                           message |-> Last(messages).content,
                           category |-> categorization[1].category,
                           company_id |-> company_id])
          /\ Goto
       \/ /\ Throw("sink")
          /\ UNCHANGED events
    /\ UNCHANGED <<rawMessages, messages, company_id, block_rule, writer, chat_message,
                   personaData, formattedPreviousMessages,
                   currentMessageContent, categorization, rulesData,
                   messageInsert, parsedRules, triggeredRules, newMessages,
                   chainCall, resB>>

\* Lines 81-92: the CHAT_MESSAGE_CREATED event.
LogCreated ==
    /\ pc = "logCreated"
    /\ apiLogger([type |-> "CHAT_MESSAGE_CREATED",
                  message |-> Last(messages).content,
                  category |-> categorization[1].category,
                  company_id |-> company_id])
    /\ Goto
    /\ UNCHANGED <<rawMessages, messages, company_id, block_rule, writer, chat_message,
                   personaData, formattedPreviousMessages,
                   currentMessageContent, categorization, rulesData,
                   messageInsert, parsedRules, triggeredRules, newMessages,
                   chainCall, resB>>

\* Variant of FetchRules without the return of line 101: the error is
\* logged and the turn goes on with no rules.
FetchRulesNoReturn ==
    /\ pc = "fetchRules"
    /\ \/ /\ rulesData' = SelectRules(block_rule, company_id)
          /\ Reach("RulesFetched")
       \/ /\ pc' = After(pc)
          /\ failure' = "rules"
          /\ UNCHANGED <<rulesData, response, stage>>
    /\ UNCHANGED <<rawMessages, messages, company_id, block_rule, writer, chat_message,
                   events, personaData, formattedPreviousMessages,
                   currentMessageContent, categorization, messageInsert,
                   parsedRules, triggeredRules, newMessages, chainCall, resB>>

\* Lines 94-102: the company's rules; on an error POST returns null.
FetchRules ==
    /\ pc = "fetchRules"
    /\ \/ /\ rulesData' = SelectRules(block_rule, company_id)
          /\ Reach("RulesFetched")
       \/ /\ ReturnNoBody("null", "rules")
          /\ UNCHANGED rulesData
    /\ UNCHANGED <<rawMessages, messages, company_id, block_rule, writer, chat_message,
                   events, personaData, formattedPreviousMessages,
                   currentMessageContent, categorization, messageInsert,
                   parsedRules, triggeredRules, newMessages, chainCall, resB>>

\* The id the store generates for a new chat_message row.
GeneratedId == Len(chat_message) + 1

\* Variant of InboundRow that stores the content with the company's
\* substitutions already applied.
InboundRowSubstituted(id) ==
    [id |-> id,
     type |-> "USER",
     content |-> ApplyTriggered(Last(messages).content,
                    evaluateMessageAgainstRules(
                        [message |-> Last(messages), message_id |-> id],
                        rulesData)),
     category |-> categorization[1].category]

\* The row lines 106-117 insert.
InboundRow(id) ==
    [id |-> id,
     type |-> "USER",
     content |-> Last(messages).content,
     category |-> categorization[1].category]

\* Variant of InsertInbound without the error check of lines 120-122: the
\* turn goes on although no row was stored.
InsertInboundUnchecked ==
    /\ pc = "insertInbound"
    /\ \/ /\ chat_message' = Append(chat_message, InboundRow(GeneratedId))
          /\ messageInsert' = <<InboundRow(GeneratedId)>>
          /\ Reach("InboundPersisted")
       \/ /\ messageInsert' = <<InboundRow(GeneratedId)>>
          /\ pc' = After(pc)
          /\ failure' = "inbound"
          /\ UNCHANGED <<chat_message, response, stage>>
    /\ UNCHANGED <<rawMessages, messages, company_id, block_rule, writer, events,
                   personaData, formattedPreviousMessages,
                   currentMessageContent, categorization, rulesData,
                   parsedRules, triggeredRules, newMessages, chainCall, resB>>

\* Lines 104-125: insert of the inbound message; on an error POST returns
\* null.
InsertInbound ==
    /\ pc = "insertInbound"
    /\ \/ /\ chat_message' = Append(chat_message, InboundRow(GeneratedId))
          /\ messageInsert' = <<InboundRow(GeneratedId)>>
          /\ Reach("InboundPersisted")
       \/ /\ ReturnNoBody("null", "inbound")
          /\ UNCHANGED <<chat_message, messageInsert>>
    /\ UNCHANGED <<rawMessages, messages, company_id, block_rule, writer, events,
                   personaData, formattedPreviousMessages,
                   currentMessageContent, categorization, rulesData,
                   parsedRules, triggeredRules, newMessages, chainCall, resB>>

\* Variant of ParseRules that reads the company's rules from the table
\* again instead of parsing the rows already fetched.
ParseRulesRefetch ==
    /\ pc = "parseRules"
    /\ \/ /\ parsedRules' = SelectRules(block_rule, company_id)
          /\ Goto
       \/ /\ rulesData # <<>>
          /\ Throw("validation")
          /\ UNCHANGED parsedRules
    /\ UNCHANGED <<rawMessages, messages, company_id, block_rule, writer, chat_message,
                   events, personaData, formattedPreviousMessages,
                   currentMessageContent, categorization, rulesData,
                   messageInsert, triggeredRules, newMessages, chainCall, resB>>

\* Line 127: BlockRuleSchema.parse of every fetched rule; parse throws on a
\* rule that violates the schema.
ParseRules ==
    /\ pc = "parseRules"
    /\ \/ /\ parsedRules' = rulesData
          /\ Goto
       \/ /\ rulesData # <<>>
          /\ Throw("validation")
          /\ UNCHANGED parsedRules
    /\ UNCHANGED <<rawMessages, messages, company_id, block_rule, writer, chat_message,
                   events, personaData, formattedPreviousMessages,
                   currentMessageContent, categorization, rulesData,
                   messageInsert, triggeredRules, newMessages, chainCall, resB>>

\* Variant of EvaluationContext that passes the id the store would
\* generate next instead of the id of the inserted row.
EvaluationContextNextId ==
    [message |-> Last(messages),
     company_id |-> company_id,
     message_id |-> GeneratedId]

\* The first argument of evaluateMessageAgainstRules, lines 130-135.
EvaluationContext ==
    [message |-> Last(messages),
     company_id |-> company_id,
     message_id |-> messageInsert[1].id]

\* Lines 129-137.
EvaluateRules ==
    /\ pc = "evaluate"
    /\ triggeredRules' = evaluateMessageAgainstRules(EvaluationContext, parsedRules)
    /\ Reach("RulesEvaluated")
    /\ UNCHANGED <<rawMessages, messages, company_id, block_rule, writer, chat_message,
                   events, personaData, formattedPreviousMessages,
                   currentMessageContent, categorization, rulesData,
                   messageInsert, parsedRules, newMessages, chainCall, resB>>

\* Lines 139-150: the CHAT_MESSAGE_BLOCK_RULE_TRIGGERED event.
LogTriggered ==
    /\ pc = "logTriggered"
    /\ \/ /\ Len(triggeredRules) > 0
          /\ apiLogger([type |-> "CHAT_MESSAGE_BLOCK_RULE_TRIGGERED",
                        message |-> Last(messages).content,
                        category |-> categorization[1].category,
                        company_id |-> company_id])
       \/ /\ Len(triggeredRules) = 0
          /\ UNCHANGED events
    /\ Goto
    /\ UNCHANGED <<rawMessages, messages, company_id, block_rule, writer, chat_message,
                   personaData, formattedPreviousMessages,
                   currentMessageContent, categorization, rulesData,
                   messageInsert, parsedRules, triggeredRules, newMessages,
                   chainCall, resB>>

\* Variant of Rewrite without the copy of line 154: the substitutions are
\* assigned to the messages themselves.
RewriteInPlace ==
    /\ pc = "rewrite"
    /\ messages' = RewriteMessages(messages, triggeredRules)
    /\ newMessages' = RewriteMessages(messages, triggeredRules)
    /\ Reach("HistoryRewritten")
    /\ UNCHANGED <<rawMessages, company_id, block_rule, writer, chat_message,
                   events, personaData, formattedPreviousMessages,
                   currentMessageContent, categorization, rulesData,
                   messageInsert, parsedRules, triggeredRules, chainCall, resB>>

\* Lines 153-164: newMessages.
Rewrite ==
    /\ pc = "rewrite"
    /\ newMessages' = RewriteMessages(messages, triggeredRules)
    /\ Reach("HistoryRewritten")
    /\ UNCHANGED <<rawMessages, messages, company_id, block_rule, writer, chat_message,
                   events, personaData, formattedPreviousMessages,
                   currentMessageContent, categorization, rulesData,
                   messageInsert, parsedRules, triggeredRules, chainCall, resB>>

\* The argument of chainB.call, lines 173-176.
ChainInput ==
    [chat_history |-> join(formattedPreviousMessages, <<"\n">>),
     input |-> currentMessageContent]

\* Variant of InvokeCompletion that calls again after a first rejection.
InvokeCompletionRetry ==
    /\ pc = "complete"
    /\ chainCall' = Append(chainCall, ChainInput)
    /\ \/ /\ \E text \in Replies : resB' = <<[text |-> text]>>
          /\ Reach("CompletionInvoked")
       \/ /\ Len(chainCall) = 0
          /\ UNCHANGED <<pc, resB, response, failure, stage>>
       \/ /\ Len(chainCall) > 0
          /\ Throw("completion")
          /\ UNCHANGED resB
    /\ UNCHANGED <<rawMessages, messages, company_id, block_rule, writer, chat_message,
                   events, personaData, formattedPreviousMessages,
                   currentMessageContent, categorization, rulesData,
                   messageInsert, parsedRules, triggeredRules, newMessages>>

\* Lines 173-176: await chainB.call(...).  The call resolves with an object
\* holding the reply text, or rejects.
InvokeCompletion ==
    /\ pc = "complete"
    /\ chainCall' = Append(chainCall, ChainInput)
    /\ \/ /\ \E text \in Replies : resB' = <<[text |-> text]>>
          /\ Reach("CompletionInvoked")
       \/ /\ Throw("completion")
          /\ UNCHANGED resB
    /\ UNCHANGED <<rawMessages, messages, company_id, block_rule, writer, chat_message,
                   events, personaData, formattedPreviousMessages,
                   currentMessageContent, categorization, rulesData,
                   messageInsert, parsedRules, triggeredRules, newMessages>>

\* Variant of OutboundRow that stores no category of the turn.
OutboundRowUncategorized(id) ==
    [id |-> id,
     type |-> "BOT",
     content |-> resB[1].text,
     category |-> "unknown"]

\* Variant of OutboundRow that stores the user's text in place of the reply.
OutboundRowEcho(id) ==
    [id |-> id,
     type |-> "BOT",
     content |-> currentMessageContent,
     category |-> categorization[1].category]

\* The row lines 182-190 insert.
OutboundRow(id) ==
    [id |-> id,
     type |-> "BOT",
     content |-> resB[1].text,
     category |-> categorization[1].category]

\* Variant of InsertOutbound that repeats the insert after an error.
InsertOutboundRetry ==
    /\ pc = "insertOutbound"
    /\ \/ /\ chat_message' = Append(chat_message, OutboundRow(GeneratedId))
          /\ Reach("OutboundPersisted")
       \/ /\ pc' = pc
          /\ failure' = "outbound"
          /\ UNCHANGED <<chat_message, response, stage>>
    /\ UNCHANGED <<rawMessages, messages, company_id, block_rule, writer, events,
                   personaData, formattedPreviousMessages,
                   currentMessageContent, categorization, rulesData,
                   messageInsert, parsedRules, triggeredRules, newMessages,
                   chainCall, resB>>

\* Lines 178-198: insert of the reply; on an error POST returns undefined.
InsertOutbound ==
    /\ pc = "insertOutbound"
    /\ \/ /\ chat_message' = Append(chat_message, OutboundRow(GeneratedId))
          /\ Reach("OutboundPersisted")
       \/ /\ ReturnNoBody("undefined", "outbound")
          /\ UNCHANGED chat_message
    /\ UNCHANGED <<rawMessages, messages, company_id, block_rule, writer, events,
                   personaData, formattedPreviousMessages,
                   currentMessageContent, categorization, rulesData,
                   messageInsert, parsedRules, triggeredRules, newMessages,
                   chainCall, resB>>

\* Line 200: return NextResponse.json(resB).
Respond ==
    /\ pc = "respond"
    /\ response' = [kind |-> "json", body |-> resB]
    /\ pc' = After(pc)
    /\ stage' = Append(stage, "Done")
    /\ UNCHANGED failure
    /\ UNCHANGED <<rawMessages, messages, company_id, block_rule, writer, chat_message,
                   events, personaData, formattedPreviousMessages,
                   currentMessageContent, categorization, rulesData,
                   messageInsert, parsedRules, triggeredRules, newMessages,
                   chainCall, resB>>

Next ==
    \/ FetchPersona
    \/ BuildPrompt
    \/ Categorize
    \/ LogCreated
    \/ FetchRules
    \/ InsertInbound
    \/ ParseRules
    \/ EvaluateRules
    \/ LogTriggered
    \/ Rewrite
    \/ InvokeCompletion
    \/ InsertOutbound
    \/ Respond

Spec == Init /\ [][Next]_vars

----------------------------------------------------------------------------
(* The turn beside a process that edits the block_rule table.              *)

\* The id of a row another process inserts.
NewRuleId ==
    1 + Len(block_rule)
      + Cardinality({i \in DOMAIN block_rule : block_rule[i].id > Len(block_rule)})

RowWithId(row, id) ==
    [id |-> id,
     company_id |-> row.company_id,
     original |-> row.original,
     substitution |-> row.substitution]

RemoveAt(s, i) == SubSeq(s, 1, i - 1) \o SubSeq(s, i + 1, Len(s))

\* Another process creates, changes or deletes one rule, at any moment of
\* the turn.
WriteRule ==
    /\ writer = "idle"
    /\ writer' = "written"
    /\ \/ \E row \in RuleRows :
             block_rule' = Append(block_rule, RowWithId(row, NewRuleId))
       \/ \E i \in DOMAIN block_rule : \E row \in RuleRows :
             /\ RowWithId(row, block_rule[i].id) # block_rule[i]
             /\ block_rule' = [block_rule EXCEPT ![i] = RowWithId(row, block_rule[i].id)]
       \/ \E i \in DOMAIN block_rule :
             block_rule' = RemoveAt(block_rule, i)
    /\ UNCHANGED <<pc, rawMessages, messages, company_id, chat_message,
                   events, personaData, formattedPreviousMessages,
                   currentMessageContent, categorization, rulesData,
                   messageInsert, parsedRules, triggeredRules, newMessages,
                   chainCall, resB, response, failure, stage>>

\* Requests of one message, and tables of at most one rule.
InitShort ==
    /\ Init
    /\ Len(rawMessages) = 1
    /\ Len(block_rule) <= 1

NextConcurrent ==
    \/ Next
    \/ WriteRule

SpecConcurrent == InitShort /\ [][NextConcurrent]_vars

\* The turn under fair scheduling: every awaited call returns or fails, so
\* a step that can be taken is eventually taken.
FairSpec == InitShort /\ [][Next]_vars /\ WF_vars(Next)

----------------------------------------------------------------------------
(* Properties of the turn.                                                 *)

InboundRows == {i \in DOMAIN chat_message : chat_message[i].type = "USER"}

OutboundRows == {i \in DOMAIN chat_message : chat_message[i].type = "BOT"}

Reached(name) == \E i \in DOMAIN stage : stage[i] = name

IsPrefix(s, t) == Len(s) <= Len(t) /\ s = SubSeq(t, 1, Len(s))

\* The failures of the steps that precede the completion call.
EarlyFailures ==
    {"persona", "prompt", "classifier", "rules", "inbound", "validation"}

\* No occurrence of a triggered rule's original is left in msgs.
NoOriginalLeft(msgs, rules) ==
    \A i \in DOMAIN msgs : \A k \in DOMAIN rules :
        ~Includes(msgs[i].content, rules[k].original)

\* C1: in a turn with at least one triggered rule, the chat history and the
\* input handed to the completion call are those of the rewritten messages.
C1_CompletionReceivesRewritten ==
    (chainCall # <<>> /\ Len(triggeredRules) > 0) =>
        /\ chainCall[1].input = Last(newMessages).content
        /\ chainCall[1].chat_history =
               join(FormattedPrevious(newMessages), <<"\n">>)

\* C2: the persisted inbound message always holds the original content of
\* the last request message, whatever the later steps of the turn do.
C2_PersistedInboundIsOriginal ==
    \A i \in InboundRows :
        chat_message[i].content = Last(rawMessages).content

\* C2 witness: a finished turn whose persisted inbound content differs from
\* the rewritten content of the same message.
C2_Witness ==
    /\ pc = "done"
    /\ response.kind = "json"
    /\ \E i \in InboundRows :
           chat_message[i].content # Last(newMessages).content

\* C3: when the completion call succeeded and the outbound insert failed,
\* the caller still receives the generated reply.
C3_ReplyDespiteOutboundFailure ==
    failure = "outbound" =>
        /\ response.kind = "json"
        /\ response.body = resB

\* C4: a failure of a step before the completion call ends the turn with no
\* completion call, no outbound message and no reply.
C4_EarlyFailureAborts ==
    failure \in EarlyFailures =>
        /\ pc = "done"
        /\ chainCall = <<>>
        /\ resB = <<>>
        /\ OutboundRows = {}
        /\ response.kind \in {"threw", "null"}
        /\ response.body = <<>>

\* C4 witness: the turn ended at the rule validation, after the inbound
\* message was stored.
C4_Witness ==
    /\ failure = "validation"
    /\ pc = "done"
    /\ InboundRows # {}

\* C5: when the classifier fails the turn ends with a failure and neither an
\* inbound nor an outbound message is persisted.
C5_ClassifierFailureIsFatal ==
    failure = "classifier" =>
        /\ pc = "done"
        /\ response.kind = "threw"
        /\ response.body = <<>>
        /\ chat_message = <<>>

\* C5 witness: the classifier failed.
C5_Witness ==
    /\ failure = "classifier"
    /\ categorization = <<>>
    /\ personaData # <<>>

\* C6: the completion call is invoked only for an inbound message that was
\* persisted before it.
C6_CompletionAfterInboundPersisted ==
    chainCall # <<>> =>
        \E i \in InboundRows :
            /\ chat_message[i].content = Last(rawMessages).content
            /\ messageInsert = <<chat_message[i]>>

\* C6 witness: the completion call returned a reply.
C6_Witness ==
    /\ chainCall # <<>>
    /\ resB # <<>>

\* The order of the pipeline states as C7 states it.
ClaimedStageOrder ==
    <<"Received", "Classified", "InboundPersisted", "RulesFetched",
      "RulesEvaluated", "HistoryRewritten", "CompletionInvoked",
      "OutboundPersisted", "Done">>

\* The order with the rule fetch ahead of the inbound insert.
FetchFirstStageOrder ==
    <<"Received", "Classified", "RulesFetched", "InboundPersisted",
      "RulesEvaluated", "HistoryRewritten", "CompletionInvoked",
      "OutboundPersisted", "Done">>

\* C7 as stated: the turn passes through Received, Classified,
\* InboundPersisted, RulesFetched, ... in that order, and a rule-fetch
\* failure finds the inbound message persisted.
C7_InboundPersistedBeforeRulesFetched ==
    /\ IsPrefix(stage, ClaimedStageOrder)
    /\ failure = "rules" => InboundRows # {}

\* C7 amended: the turn passes through Received, Classified, RulesFetched,
\* InboundPersisted, RulesEvaluated, HistoryRewritten, CompletionInvoked,
\* OutboundPersisted, Done in that order; the rules are fetched before the
\* inbound message is persisted, so a rule-fetch failure finds no inbound
\* message persisted.
C7_RulesFetchedBeforeInboundPersisted ==
    /\ IsPrefix(stage, FetchFirstStageOrder)
    /\ Reached("InboundPersisted") <=> InboundRows # {}
    /\ Reached("OutboundPersisted") <=> OutboundRows # {}
    /\ Reached("CompletionInvoked") <=> resB # <<>>
    /\ Reached("HistoryRewritten") <=> newMessages # <<>>
    /\ failure = "rules" => (pc = "done" /\ chat_message = <<>>)

\* C7 witness: the rule fetch failed.
C7_Witness ==
    /\ failure = "rules"
    /\ stage = <<"Received", "Classified">>

\* C8: rules are evaluated only after the inbound message is persisted, and
\* the message id handed to the evaluation, and carried by every triggered
\* rule, is the id of the persisted inbound row.
C8_EvaluationUsesPersistedId ==
    Reached("RulesEvaluated") =>
        \E i \in InboundRows :
            /\ EvaluationContext.message_id = chat_message[i].id
            /\ \A k \in DOMAIN triggeredRules :
                   triggeredRules[k].message_id = chat_message[i].id

\* C8 witness: two rules were triggered.
C8_Witness ==
    /\ Reached("RulesEvaluated")
    /\ Len(triggeredRules) = 2

\* C9: after the rewrite with a single triggered rule whose substitution
\* does not contain the original, no message contains the original.
C9_AllOccurrencesReplaced ==
    (/\ newMessages # <<>>
     /\ Len(triggeredRules) = 1
     /\ ~Includes(triggeredRules[1].substitution, triggeredRules[1].original))
        => NoOriginalLeft(newMessages, triggeredRules)

\* C10 as stated: rewriting the rewritten history with the same triggered
\* rules returns it unchanged.
C10_RewriteIdempotent ==
    newMessages # <<>> =>
        RewriteMessages(newMessages, triggeredRules) = newMessages

\* C10 amended: when the rewritten history contains no occurrence of any
\* triggered rule's original, rewriting it with the same triggered rules
\* returns it unchanged.
C10_RewriteFixedWhenNoOriginalLeft ==
    (newMessages # <<>> /\ NoOriginalLeft(newMessages, triggeredRules)) =>
        RewriteMessages(newMessages, triggeredRules) = newMessages

\* C10 witness: a rewrite that changed the history and left no original.
C10_Witness ==
    /\ newMessages # <<>>
    /\ Len(triggeredRules) > 0
    /\ newMessages # messages
    /\ NoOriginalLeft(newMessages, triggeredRules)

\* C11: when no rule is triggered, also when the company has no rule at
\* all, the rewritten history equals the input history message by message,
\* and the turn goes on to the completion call.
C11_NoTriggeredRuleLeavesHistory ==
    (Reached("HistoryRewritten") /\ Len(triggeredRules) = 0) =>
        /\ Len(newMessages) = Len(rawMessages)
        /\ \A i \in DOMAIN newMessages :
               /\ newMessages[i].role = rawMessages[i].role
               /\ newMessages[i].content = rawMessages[i].content
        /\ failure \notin EarlyFailures
        /\ pc = "complete" \/ Len(chainCall) = 1

\* C11 witness: a company without rules, a history of two messages, and the
\* completion call made.
C11_Witness ==
    /\ Reached("HistoryRewritten")
    /\ Len(triggeredRules) = 0
    /\ rulesData = <<>>
    /\ Len(rawMessages) = 2
    /\ Len(chainCall) = 1

\* C12: the triggered substitutions are applied to each message one after
\* the other in the order of triggeredRules, each on the text the previous
\* one left; a content equal to the first original, whose substitution is
\* the second original, ends as the second substitution.
C12_SequentialSubstitution ==
    (Reached("HistoryRewritten") /\ Len(triggeredRules) = 2) =>
        \A i \in DOMAIN newMessages :
            LET first == triggeredRules[1]
                second == triggeredRules[2]
                step == Replace(messages[i].content, first.original,
                                first.substitution)
            IN /\ newMessages[i].content =
                      Replace(step, second.original, second.substitution)
               /\ (/\ messages[i].content = first.original
                   /\ first.substitution = second.original)
                      => newMessages[i].content = second.substitution

\* C12 witness: a message equal to the first original is rewritten to the
\* second substitution, which differs from the first.
C12_Witness ==
    /\ Reached("HistoryRewritten")
    /\ Len(triggeredRules) = 2
    /\ \E i \in DOMAIN newMessages :
           /\ messages[i].content = triggeredRules[1].original
           /\ triggeredRules[1].substitution = triggeredRules[2].original
           /\ newMessages[i].content = triggeredRules[2].substitution
           /\ triggeredRules[2].substitution # triggeredRules[1].substitution

\* Everything of the turn but the sink's events.
TurnState ==
    <<rawMessages, messages, company_id, chat_message, personaData,
      formattedPreviousMessages, currentMessageContent, categorization,
      rulesData, messageInsert, parsedRules, triggeredRules, newMessages,
      chainCall, resB, response, failure, stage>>

\* An emission step: the turn goes on to the next statement and nothing of
\* it changes; the sink has taken the event or not.
EmissionLeavesTurn ==
    pc \in {"logCreated", "logTriggered"} =>
        (/\ pc' = After(pc)
         /\ TurnState' = TurnState
         /\ events' = events \/ Len(events') = Len(events) + 1)

\* C13: at both emissions (message received, rule triggered) the turn goes
\* on to the next statement with its state unchanged, whether the sink took
\* the event or lost it; a lost event never ends the turn.
C13_SinkFailureNeverFailsTurn == [][EmissionLeavesTurn]_vars

\* C13 witness: the sink lost both events and the caller got the reply.
C13_Witness ==
    /\ pc = "done"
    /\ response.kind = "json"
    /\ Len(triggeredRules) > 0
    /\ events = <<>>

\* The failures the error taxonomy calls configuration errors.
ConfigurationFailures == {"persona", "prompt", "validation"}

\* C14: a missing persona, a persona the prompt builder rejects, or a rule
\* that fails the schema ends the turn before any completion call, and the
\* caller gets a failure and no reply.
C14_ConfigurationErrorIsFatal ==
    failure \in ConfigurationFailures =>
        /\ pc = "done"
        /\ Len(chainCall) = 0
        /\ response = [kind |-> "threw", body |-> <<>>]
        /\ ~Reached("CompletionInvoked")

\* C14 witness: the persona of the chat block is missing.
C14_Witness ==
    /\ failure = "persona"
    /\ personaData = <<>>
    /\ pc = "done"

\* C15: when the completion call fails the turn ends with a failure, no
\* outbound message and no reply, and the completion call was made once.
C15_CompletionFailureIsFatal ==
    /\ Len(chainCall) <= 1
    /\ failure = "completion" =>
           /\ pc = "done"
           /\ Len(chainCall) = 1
           /\ resB = <<>>
           /\ OutboundRows = {}
           /\ response = [kind |-> "threw", body |-> <<>>]

\* C15 witness: the completion call failed after the inbound message was
\* persisted.
C15_Witness ==
    /\ failure = "completion"
    /\ InboundRows # {}
    /\ Len(chainCall) = 1

\* The rule a triggered rule refers to is a fetched rule of the company.
FromFetchedRule(t) ==
    \E k \in DOMAIN rulesData :
        /\ rulesData[k].id = t.rule_id
        /\ rulesData[k].company_id = company_id
        /\ rulesData[k].original = t.original
        /\ rulesData[k].substitution = t.substitution

\* C16: the rules evaluated are the rules the one fetch returned for the
\* turn's company; whatever another process writes to block_rule after that
\* fetch, the triggered rules are the fetched rules whose original occurs in
\* the last message, and the rewrite applies those.
C16_RulesAreTheFetchedSnapshot ==
    /\ \A k \in DOMAIN rulesData : rulesData[k].company_id = company_id
    /\ (writer = "idle" /\ Reached("RulesFetched")) =>
           rulesData = SelectRules(block_rule, company_id)
    /\ Reached("RulesEvaluated") =>
           /\ \A k \in DOMAIN triggeredRules : FromFetchedRule(triggeredRules[k])
           /\ Len(triggeredRules) =
                  Cardinality({k \in DOMAIN rulesData :
                      Includes(Last(rawMessages).content, rulesData[k].original)})
    /\ Reached("HistoryRewritten") =>
           newMessages = RewriteMessages(messages, triggeredRules)

\* C16 witness: after the fetch another process wrote a rule of the company
\* that matches the last message; the turn finished with no rule triggered
\* and the history as it was.
C16_Witness ==
    /\ pc = "done"
    /\ response.kind = "json"
    /\ writer = "written"
    /\ rulesData = <<>>
    /\ triggeredRules = <<>>
    /\ newMessages = messages
    /\ evaluateMessageAgainstRules(EvaluationContext,
           SelectRules(block_rule, company_id)) # <<>>

\* C17: a message is persisted only after the persona prompt was built and
\* the classifier returned, and the category stored on the inbound and on
\* the outbound message is the category the classifier returned.
C17_PersistedCategoryIsClassified ==
    \A i \in DOMAIN chat_message :
        /\ personaData # <<>>
        /\ personaData[1].valid
        /\ Reached("Classified")
        /\ categorization # <<>>
        /\ categorization[1].category \in Categories
        /\ categorization[1].message = Last(rawMessages).content
        /\ chat_message[i].category = categorization[1].category

\* C17 witness: both messages of the turn are persisted.
C17_Witness ==
    /\ InboundRows # {}
    /\ OutboundRows # {}

\* The rewrite step builds newMessages and leaves the request's messages.
RewriteLeavesInput ==
    pc = "rewrite" =>
        (/\ Len(messages') = Len(messages)
         /\ \A i \in DOMAIN messages :
                /\ messages'[i].role = messages[i].role
                /\ messages'[i].content = messages[i].content
         /\ rawMessages' = rawMessages
         /\ Len(newMessages') = Len(messages))

\* C18: for every set of triggered rules the rewrite step leaves the
\* request's message sequence with the length, roles and contents it had.
C18_RewriteLeavesInputUntouched == [][RewriteLeavesInput]_vars

\* C18 witness: the rewrite changed a content in its copy and the request's
\* messages are those received.
C18_Witness ==
    /\ Reached("HistoryRewritten")
    /\ Len(triggeredRules) > 0
    /\ newMessages # messages
    /\ messages = rawMessages

\* The position of statement p in POST.
Rank(p) == CHOOSE i \in DOMAIN StepOrder : StepOrder[i] = p

\* Every step of the turn moves to a later statement.
StepForward == Rank(pc') > Rank(pc)

\* C19: with every external call returning or failing, the turn reaches a
\* terminal state, and no step is taken twice or leads back.
C19_TurnTerminates ==
    /\ <>(pc = "done")
    /\ [][StepForward]_vars

\* C19 witness: the turn ended with the reply returned.
C19_Witness ==
    /\ pc = "done"
    /\ stage[Len(stage)] = "Done"
    /\ response.kind = "json"

\* C20: at most one inbound and one outbound message are persisted; an
\* outbound message is persisted only after the inbound message and after
\* the completion returned a reply, and its content is that reply's text.
C20_OneInboundOneOutbound ==
    /\ Cardinality(InboundRows) <= 1
    /\ Cardinality(OutboundRows) <= 1
    /\ \A i \in OutboundRows :
           /\ \E j \in InboundRows : j < i
           /\ Reached("InboundPersisted")
           /\ resB # <<>>
           /\ chat_message[i].content = resB[1].text

\* C20 witness: the reply is persisted after the user's message.
C20_Witness ==
    /\ Cardinality(InboundRows) = 1
    /\ Cardinality(OutboundRows) = 1
    /\ \E i \in OutboundRows : chat_message[i].content = resB[1].text

====
